---- MODULE Spec2Model ----
(***************************************************************************)
(* Model of tools/stack_health.py: the command runner sh, the structured   *)
(* query helper kubectl_json, the HTTP(S) probe http_probe, the readiness  *)
(* predicate pod_ready, and main(), the sequential checklist runner with   *)
(* its three tally counters.                                               *)
(*                                                                         *)
(* Python values are records whose field names tell the Python type        *)
(* ([bool |-> TRUE], [int |-> 0], [str |-> "x"], [null |-> TRUE],          *)
(* [absent |-> TRUE] for a key that is not in a mapping, [scalar |-> s]    *)
(* for a value that is not a mapping and has no .get).  A function that    *)
(* can raise returns a record with a field "raised".                       *)
(***************************************************************************)
EXTENDS Integers, Sequences, FiniteSets, TLC

VARIABLES
    pc,         \* position of main(), or of the pure-function harness
    https,      \* args.https
    i,          \* index of the running for-loop (namespaces, DNS hosts)
    passed,     \* main: passed
    warned,     \* main: warned
    failed,     \* main: failed
    okLines,    \* number of ok() lines printed so far
    warnLines,  \* number of warn() lines printed so far
    failLines,  \* number of fail() lines printed so far
    out,        \* the ok/warn/fail lines printed since the last section header
    hint,       \* the IP printed in the "Please run: sudo sed ..." lines, or "none"
    summary,    \* what the summary printed: "none", "allpassed", "somefailed"
    calls,      \* the external calls made so far, each with the timeout it was given
    inp,        \* what the environment answered to the step just executed
    scenario,   \* which end-to-end scenario the answers seen so far still satisfy
    arg,        \* pure-function harness: the argument
    ret         \* pure-function harness: the returned value

vars == <<pc, https, i, passed, warned, failed, okLines, warnLines, failLines,
          out, hint, summary, calls, inp, scenario, arg, ret>>

(***************************************************************************)
(* Bounds of the model.                                                    *)
(***************************************************************************)
MaxContainers == 2      \* longest containerStatuses list given to pod_ready
MaxLines == 2           \* longest kubeconfig file, in lines
MaxPods == 2            \* longest pod list of the logging namespace

(***************************************************************************)
(* Program constants.                                                      *)
(***************************************************************************)
ShTimeout == 20
KubectlTimeout == 40
ProbeTimeout == 6
TimeoutRc == 124
ArgsIp == "192.168.2.60"
ArgsHosts == <<"argocd.pizza", "grafana.pizza", "whoami.pizza">>
Namespaces == <<"argocd", "monitoring", "logging", "default">>
CoreKeys == <<"coredns", "traefik", "metrics-server", "local-path-provisioner">>

Absent == [absent |-> TRUE]
Null == [null |-> TRUE]

RECURSIVE SeqsUpTo(_, _)
SeqsUpTo(S, n) ==
    IF n = 0 THEN {<<>>}
    ELSE LET shorter == SeqsUpTo(S, n - 1)
         IN  shorter \cup {Append(s, x) : s \in {t \in shorter : Len(t) = n - 1}, x \in S}

(***************************************************************************)
(* Python truthiness of a JSON value.                                      *)
(***************************************************************************)
Truthy(v) ==
    IF "bool" \in DOMAIN v THEN v.bool
    ELSE IF "int" \in DOMAIN v THEN v.int # 0
    ELSE IF "str" \in DOMAIN v THEN v.str # ""
    ELSE IF "list" \in DOMAIN v THEN Len(v.list) > 0
    ELSE FALSE          \* None, or the default of a missing key

(***************************************************************************)
(* pod_ready (lines 77-84).                                                *)
(***************************************************************************)
\* pod.get("status", {}): raises AttributeError when pod is not a mapping
PodStatus(pod) ==
    IF "scalar" \in DOMAIN pod THEN [raised |-> "AttributeError"]
    ELSE IF "status" \notin DOMAIN pod \/ "absent" \in DOMAIN pod.status
         THEN [phase |-> "<absent>", containerStatuses |-> Absent]
         ELSE pod.status

\* all(c.get("ready") for c in cs): stops at the first falsy entry, raises on
\* an entry that has no .get
RECURSIVE AllReady(_)
AllReady(cs) ==
    IF cs = <<>> THEN [val |-> TRUE]
    ELSE IF "scalar" \in DOMAIN Head(cs) THEN [raised |-> "AttributeError"]
    ELSE IF ~Truthy(Head(cs).ready) THEN [val |-> FALSE]
    ELSE AllReady(Tail(cs))

\* the body of the try block; [val |-> b] or [raised |-> e]
PodReadyBody(pod) ==
    LET st == PodStatus(pod) IN
    IF "raised" \in DOMAIN st THEN st
    ELSE IF "scalar" \in DOMAIN st THEN [raised |-> "AttributeError"]
    ELSE IF st.phase # "Running" THEN [val |-> FALSE]
    ELSE LET raw == st.containerStatuses IN
         IF ~Truthy(raw) THEN [val |-> FALSE]      \* cs = [], len(cs) > 0 fails
         ELSE IF "list" \notin DOMAIN raw
              THEN [raised |-> IF "str" \in DOMAIN raw THEN "AttributeError"
                               ELSE "TypeError"]
              ELSE LET a == AllReady(raw.list) IN
                   IF "raised" \in DOMAIN a THEN a
                   ELSE [val |-> a.val /\ Len(raw.list) > 0]

pod_ready(pod) ==
    LET r == PodReadyBody(pod) IN
    IF "raised" \in DOMAIN r THEN FALSE ELSE r.val

(***************************************************************************)
(* http_probe (lines 57-75).  conn is what the connection does:            *)
(* [exc |-> msg] an exception in connect, request or read; [hang |-> TRUE] *)
(* a peer that never answers, which the socket timeout turns into          *)
(* socket.timeout; [status, reason, data] a response, data being the bytes *)
(* resp.read(2000) returned.                                               *)
(***************************************************************************)
InvalidByte == "\\xff"

\* data.decode("utf-8", errors="ignore"): undecodable bytes are dropped
Decode(data) == SelectSeq(data, LAMBDA t : t # InvalidByte)

\* off by one at the upper end of the range
Okish_mut(status) == 100 <= status /\ status <= 500

Okish(status) == 100 <= status /\ status < 500

http_probe(conn) ==
    IF "exc" \in DOMAIN conn THEN <<FALSE, 0, conn.exc, <<>> >>
    ELSE IF "hang" \in DOMAIN conn THEN <<FALSE, 0, "timed out", <<>> >>
    ELSE <<Okish(conn.status), conn.status, conn.reason, Decode(conn.data)>>

(***************************************************************************)
(* sh (lines 30-38).  proc is what the child process does:                 *)
(* [oserror |-> msg] Popen raises; [hang |-> TRUE] the child does not      *)
(* complete within the timeout; [rc, out, err] it exits.                   *)
(***************************************************************************)
IsSpace(t) == t \in {" ", "\n"}

RECURSIVE LStrip(_)
LStrip(s) == IF s # <<>> /\ IsSpace(Head(s)) THEN LStrip(Tail(s)) ELSE s

RECURSIVE RStrip(_)
RStrip(s) ==
    IF s # <<>> /\ IsSpace(s[Len(s)]) THEN RStrip(SubSeq(s, 1, Len(s) - 1)) ELSE s

\* str.strip() of captured output: [text |-> tokens], or a JSON document
\* followed by whitespace, [doc |-> d, ws |-> tokens]
Strip(o) ==
    IF "text" \in DOMAIN o THEN [text |-> RStrip(LStrip(o.text))]
    ELSE [doc |-> o.doc, ws |-> RStrip(o.ws)]

NoText == [text |-> <<>>]

sh(proc, timeout) ==
    IF "oserror" \in DOMAIN proc THEN [raised |-> proc.oserror]
    ELSE IF "hang" \in DOMAIN proc
         THEN [rc |-> TimeoutRc, out |-> NoText,
               err |-> [text |-> <<"timeout after", ToString(timeout), "s">>]]
         ELSE [rc |-> proc.rc, out |-> Strip(proc.out), err |-> Strip(proc.err)]

(***************************************************************************)
(* kubectl_json (lines 51-55).                                             *)
(***************************************************************************)
\* json.loads: text that is not a JSON document raises JSONDecodeError
JsonLoads(o) ==
    IF "doc" \in DOMAIN o THEN [val |-> o.doc] ELSE [raised |-> "JSONDecodeError"]

kubectl_json(proc) ==
    LET r == sh(proc, KubectlTimeout) IN
    IF "raised" \in DOMAIN r THEN r
    ELSE IF r.rc # 0 THEN [raised |-> "RuntimeError"]
    ELSE JsonLoads(r.out)

(***************************************************************************)
(* The lines main() prints.  A line is [lvl, chk, cnt]: the function that  *)
(* printed it (ok, warn, fail), the sub-check it reports, and whether the  *)
(* statement that follows it increments the counter of that level.         *)
(***************************************************************************)
Line(lvl, chk, cnt) == [lvl |-> lvl, chk |-> chk, cnt |-> cnt]

Count(lines, lvl) == Cardinality({k \in 1..Len(lines) : lines[k].lvl = lvl})

Tallied(lines, lvl) ==
    Cardinality({k \in 1..Len(lines) : lines[k].lvl = lvl /\ lines[k].cnt})

Contains(text, token) == \E k \in 1..Len(text) : text[k] = token

(***************************************************************************)
(* Kubeconfig sub-check (lines 105-122).  file is [missing |-> TRUE],      *)
(* [unreadable |-> TRUE] (a regular file that open() refuses) or           *)
(* [lines |-> the lines of the file], a line being a sequence of tokens.   *)
(***************************************************************************)
\* the last matching line instead of the first
RECURSIVE ServerLine_mut(_)
ServerLine_mut(lines) ==
    IF lines = <<>> THEN <<>>
    ELSE IF Contains(lines[Len(lines)], "server: ") THEN lines[Len(lines)]
    ELSE ServerLine_mut(SubSeq(lines, 1, Len(lines) - 1))

\* next((l for l in cfg.splitlines() if "server: " in l), "")
RECURSIVE ServerLine(_)
ServerLine(lines) ==
    IF lines = <<>> THEN <<>>
    ELSE IF Contains(Head(lines), "server: ") THEN Head(lines)
    ELSE ServerLine(Tail(lines))

KubeconfigCheck(file) ==
    IF "missing" \in DOMAIN file
    THEN [lines |-> <<Line("fail", "kubeconfig", TRUE)>>, hint |-> ArgsIp,
          raised |-> FALSE]
    ELSE IF "unreadable" \in DOMAIN file
    THEN [lines |-> <<Line("ok", "kubeconfig", FALSE)>>, hint |-> "none",
          raised |-> TRUE]
    ELSE IF Contains(ServerLine(file.lines), "127.0.0.1:6443")
    THEN [lines |-> <<Line("ok", "kubeconfig", FALSE),
                      Line("warn", "kubeconfig_server", TRUE)>>,
          hint |-> "none", raised |-> FALSE]
    ELSE [lines |-> <<Line("ok", "kubeconfig", FALSE),
                      Line("ok", "kubeconfig_server", FALSE)>>,
          hint |-> "none", raised |-> FALSE]

(***************************************************************************)
(* API /readyz (lines 124-135).                                            *)
(***************************************************************************)
Lower(t) == IF t \in {"OK", "Ok"} THEN "ok" ELSE t

LowerText(text) == [k \in 1..Len(text) |-> Lower(text[k])]

ReadyzCheck(proc) ==
    LET r == sh(proc, ShTimeout) IN
    IF "raised" \in DOMAIN r THEN <<Line("fail", "readyz", TRUE)>>
    ELSE IF r.rc = 0 /\ "text" \in DOMAIN r.out /\ Contains(LowerText(r.out.text), "ok")
         THEN <<Line("ok", "readyz", TRUE)>>
         ELSE <<Line("fail", "readyz", TRUE)>>

(***************************************************************************)
(* Node health (lines 139-169).                                            *)
(***************************************************************************)
\* {a["type"]: a["address"] for a in addresses}.get("InternalIP", "<missing>")
RECURSIVE InternalIp(_, _)
InternalIp(addresses, sofar) ==
    IF addresses = <<>> THEN [val |-> sofar]
    ELSE IF "address" \notin DOMAIN Head(addresses) THEN [raised |-> "KeyError"]
    ELSE InternalIp(Tail(addresses),
                    IF Head(addresses).type = "InternalIP"
                    THEN Head(addresses).address ELSE sofar)

\* the loop over the conditions: the last Ready condition decides
RECURSIVE NodeReady(_, _)
NodeReady(conditions, sofar) ==
    IF conditions = <<>> THEN sofar
    ELSE NodeReady(Tail(conditions),
                   IF Head(conditions).type = "Ready"
                   THEN Head(conditions).status = "True" ELSE sofar)

NodeCheck(proc) ==
    LET j == kubectl_json(proc)
        err == <<Line("fail", "nodes", TRUE)>>
    IN
    IF "raised" \in DOMAIN j THEN err
    ELSE IF "array" \in DOMAIN j.val THEN err          \* node_json.get raises
    ELSE IF "items" \notin DOMAIN j.val \/ j.val.items = <<>>
         THEN <<Line("fail", "nodes", TRUE)>>        \* No nodes returned by API
    ELSE LET node == j.val.items[1] IN
         IF "absent" \in DOMAIN node.metadata THEN err
         ELSE IF "addresses" \notin DOMAIN node.status THEN err
         ELSE LET ip == InternalIp(node.status.addresses, "<missing>") IN
              IF "raised" \in DOMAIN ip THEN err
              ELSE <<Line(IF NodeReady(node.status.conditions, FALSE)
                          THEN "ok" ELSE "fail", "node_ready", TRUE),
                     Line(IF ip.val = ArgsIp THEN "ok" ELSE "fail", "node_ip", TRUE)>>

(***************************************************************************)
(* Core kube-system pods (lines 173-197).  A pod name is a sequence of     *)
(* tokens: name.startswith(key) is name[1] = key, key in name is Contains. *)
(***************************************************************************)
StartsWith(name, key) == name # <<>> /\ name[1] = key

\* the loop over sys_pods; need is a function CoreKeys index -> BOOLEAN
RECURSIVE Need(_, _)
Need(pods, need) ==
    IF pods = <<>> THEN [val |-> need]
    ELSE IF "absent" \in DOMAIN Head(pods).metadata THEN [raised |-> "KeyError"]
    ELSE Need(Tail(pods),
              [k \in DOMAIN need |->
                  IF StartsWith(Head(pods).metadata.name, CoreKeys[k])
                     /\ pod_ready(Head(pods))
                  THEN TRUE ELSE need[k]])

CoreCheck(proc) ==
    LET j == kubectl_json(proc)
        err == <<Line("fail", "core", TRUE)>>
    IN
    IF "raised" \in DOMAIN j THEN err
    ELSE IF "array" \in DOMAIN j.val THEN err
    ELSE LET n == Need(IF "items" \in DOMAIN j.val THEN j.val.items ELSE <<>>,
                       [k \in 1..Len(CoreKeys) |-> FALSE])
         IN IF "raised" \in DOMAIN n THEN err
            ELSE [k \in 1..Len(CoreKeys) |->
                     Line(IF n.val[k] THEN "ok" ELSE "fail", CoreKeys[k], TRUE)]

(***************************************************************************)
(* Namespaces present (lines 201-212), one iteration of the loop.          *)
(***************************************************************************)
\* a missing namespace reported as a failure
NamespaceCheck_mut(proc, ns) ==
    LET r == sh(proc, ShTimeout) IN
    IF "raised" \in DOMAIN r THEN <<Line("warn", ns, TRUE)>>
    ELSE IF r.rc = 0 THEN <<Line("ok", ns, TRUE)>>
    ELSE <<Line("fail", ns, TRUE)>>

NamespaceCheck(proc, ns) ==
    LET r == sh(proc, ShTimeout) IN
    IF "raised" \in DOMAIN r THEN <<Line("warn", ns, TRUE)>>
    ELSE IF r.rc = 0 THEN <<Line("ok", ns, TRUE)>>
    ELSE <<Line("warn", ns, TRUE)>>

(***************************************************************************)
(* The deployment queries of Argo CD and Grafana / Prometheus              *)
(* (lines 218-230, 255-267, 270-282): sh, json.loads, availableReplicas.   *)
(***************************************************************************)
\* int(avail): a string that is not a number raises ValueError
ToInt(v) ==
    IF "int" \in DOMAIN v THEN [val |-> v.int]
    ELSE IF v.str = "2" THEN [val |-> 2]
    ELSE [raised |-> "ValueError"]

\* [raised |-> e], or [found |-> rc = 0, available |-> avail and int(avail) > 0]
DeployAvailable(proc) ==
    LET r == sh(proc, ShTimeout) IN
    IF "raised" \in DOMAIN r THEN r
    ELSE IF r.rc # 0 THEN [found |-> FALSE, available |-> FALSE]
    ELSE LET d == JsonLoads(r.out) IN
         IF "raised" \in DOMAIN d THEN d
         ELSE IF "array" \in DOMAIN d.val THEN [raised |-> "AttributeError"]
         ELSE LET avail == IF "absent" \in DOMAIN d.val.status
                           THEN [int |-> 0]
                           ELSE d.val.status.availableReplicas
              IN IF ~Truthy(avail) THEN [found |-> TRUE, available |-> FALSE]
                 ELSE LET n == ToInt(avail) IN
                      IF "raised" \in DOMAIN n THEN n
                      ELSE [found |-> TRUE, available |-> n.val > 0]

\* the two branches of the availability test swapped
ArgocdDeployCheck_mut(proc) ==
    LET a == DeployAvailable(proc) IN
    IF "raised" \in DOMAIN a
    THEN [lines |-> <<Line("fail", "argocd_error", TRUE)>>, raised |-> TRUE]
    ELSE [lines |-> <<Line(IF a.available THEN "fail" ELSE "ok",
                           "argocd_deploy", TRUE)>>, raised |-> FALSE]

\* lines 216-230 and 247-249: the except clause of the section reports one fail
ArgocdDeployCheck(proc) ==
    LET a == DeployAvailable(proc) IN
    IF "raised" \in DOMAIN a
    THEN [lines |-> <<Line("fail", "argocd_error", TRUE)>>, raised |-> TRUE]
    ELSE [lines |-> <<Line(IF a.available THEN "ok" ELSE "fail",
                           "argocd_deploy", TRUE)>>, raised |-> FALSE]

\* lines 253-267 and 300-302
GrafanaDeployCheck(proc) ==
    LET a == DeployAvailable(proc) IN
    IF "raised" \in DOMAIN a
    THEN [lines |-> <<Line("fail", "monitoring_error", TRUE)>>, raised |-> TRUE]
    ELSE [lines |-> <<Line(IF a.available THEN "ok" ELSE "fail",
                           "grafana_deploy", TRUE)>>, raised |-> FALSE]

\* lines 269-282 and 300-302: the operator is lenient, warn instead of fail
OperatorCheck(proc) ==
    LET a == DeployAvailable(proc) IN
    IF "raised" \in DOMAIN a
    THEN [lines |-> <<Line("fail", "monitoring_error", TRUE)>>, raised |-> TRUE]
    ELSE [lines |-> <<Line(IF a.available THEN "ok" ELSE "warn",
                           "operator", TRUE)>>, raised |-> FALSE]

(***************************************************************************)
(* The HTTP and HTTPS probes of Argo CD and Grafana                        *)
(* (lines 232-246, 285-299) and the HTTPS probe of whoami (345-351).       *)
(***************************************************************************)
ProbeCheck(conn, chk) ==
    LET p == http_probe(conn) IN
    <<Line(IF p[1] THEN "ok" ELSE "fail", chk, TRUE)>>

(***************************************************************************)
(* Loki / Promtail (lines 306-324).                                        *)
(***************************************************************************)
\* any(p["metadata"]["name"].startswith("loki") and pod_ready(p) for p in pods)
RECURSIVE HasLoki(_)
HasLoki(pods) ==
    IF pods = <<>> THEN [val |-> FALSE]
    ELSE IF "absent" \in DOMAIN Head(pods).metadata THEN [raised |-> "KeyError"]
    ELSE IF StartsWith(Head(pods).metadata.name, "loki") /\ pod_ready(Head(pods))
         THEN [val |-> TRUE]
         ELSE HasLoki(Tail(pods))

\* any("promtail" in p["metadata"]["name"] and pod_ready(p) for p in pods)
RECURSIVE HasPromtail(_)
HasPromtail(pods) ==
    IF pods = <<>> THEN [val |-> FALSE]
    ELSE IF "absent" \in DOMAIN Head(pods).metadata THEN [raised |-> "KeyError"]
    ELSE IF Contains(Head(pods).metadata.name, "promtail") /\ pod_ready(Head(pods))
         THEN [val |-> TRUE]
         ELSE HasPromtail(Tail(pods))

LokiCheck(proc) ==
    LET j == kubectl_json(proc)
        err == <<Line("warn", "loki_error", TRUE)>>
    IN
    IF "raised" \in DOMAIN j THEN err
    ELSE IF "array" \in DOMAIN j.val THEN err
    ELSE LET pods == IF "items" \in DOMAIN j.val THEN j.val.items ELSE <<>>
             has_loki == HasLoki(pods)
             has_promtail == HasPromtail(pods)
         IN IF "raised" \in DOMAIN has_loki \/ "raised" \in DOMAIN has_promtail
            THEN err
            ELSE <<Line(IF has_loki.val THEN "ok" ELSE "warn", "loki", TRUE),
                   Line(IF has_promtail.val THEN "ok" ELSE "warn", "promtail", TRUE)>>

(***************************************************************************)
(* Demo app: whoami (lines 328-354).                                       *)
(***************************************************************************)
WhoamiSvcCheck(proc) ==
    LET r == sh(proc, ShTimeout) IN
    IF "raised" \in DOMAIN r
    THEN [lines |-> <<Line("fail", "whoami_error", TRUE)>>, raised |-> TRUE]
    ELSE [lines |-> <<Line(IF r.rc = 0 THEN "ok" ELSE "warn", "whoami_svc", TRUE)>>,
          raised |-> FALSE]

\* line 338: alive and "Hostname:" in body or "Request served by" in body
\*           or code in (200, 301, 302); and binds tighter than or
WhoamiVerdict(alive, code, body) ==
    \/ (alive /\ Contains(body, "Hostname:"))
    \/ Contains(body, "Request served by")
    \/ code \in {200, 301, 302}

WhoamiProbeCheck(conn) ==
    LET p == http_probe(conn) IN
    <<Line(IF WhoamiVerdict(p[1], p[2], p[4]) THEN "ok" ELSE "fail",
           "whoami_http", TRUE)>>

(***************************************************************************)
(* Optional DNS hints (lines 359-367), one iteration of the loop.  answer  *)
(* is [ip |-> address], [gaierror |-> TRUE], or [hang |-> TRUE] for a      *)
(* resolver that never returns: gethostbyname is called without a timeout. *)
(***************************************************************************)
DnsCheck(answer, host) ==
    IF "gaierror" \in DOMAIN answer THEN <<Line("warn", host, FALSE)>>
    ELSE IF answer.ip = ArgsIp THEN <<Line("ok", host, FALSE)>>
    ELSE <<Line("warn", host, FALSE)>>

(***************************************************************************)
(* Summary (lines 370-383).                                                *)
(***************************************************************************)
SummaryMessage(f) == IF f = 0 THEN "allpassed" ELSE "somefailed"

(***************************************************************************)
(* What the environment can answer.                                        *)
(***************************************************************************)
Exit(rc, o, e) == [rc |-> rc, out |-> o, err |-> e]
TextOut(tokens) == [text |-> tokens]
JsonOut(doc) == [doc |-> doc, ws |-> <<"\n">>]

Oserror == [oserror |-> "OSError"]
Hang == [hang |-> TRUE]
ExitFail == Exit(1, NoText, TextOut(<<"connection refused", "\n">>))
ExitPlain == Exit(0, TextOut(<<"NAME", " ", "STATUS", "\n">>), NoText)
ExitBadJson == Exit(0, TextOut(<<"Unable to connect to the server", "\n">>), NoText)
ExitArray == Exit(0, JsonOut([array |-> TRUE]), NoText)
ExitJson(doc) == Exit(0, JsonOut(doc), NoText)

Failures == {Oserror, Hang, ExitFail}

\* the kubeconfig file
LineKinds ==
    { <<"    ", "server: ", "https://", "127.0.0.1:6443">>,
      <<"    ", "server: ", "https://", "192.168.2.60:6443">>,
      <<"# was ", "https://", "127.0.0.1:6443">>,
      <<"apiVersion: v1">> }

Files ==
    {[missing |-> TRUE], [unreadable |-> TRUE]}
        \cup {[lines |-> l] : l \in SeqsUpTo(LineKinds, MaxLines)}

ReadyzProcs ==
    Failures \cup
    { Exit(0, TextOut(<<"ok">>), NoText),
      Exit(0, TextOut(<<"[+]ping ", "OK", "\n">>), NoText),
      Exit(0, NoText, NoText),
      Exit(1, TextOut(<<"[-]etcd failed", "\n", "ok">>), NoText) }

\* pods
Container(r) == [ready |-> r]
ReadyStatus ==
    [phase |-> "Running",
     containerStatuses |-> [list |-> <<Container([bool |-> TRUE])>>]]
NotReadyStatus ==
    [phase |-> "Running",
     containerStatuses |-> [list |-> <<Container([bool |-> FALSE])>>]]
PendingStatus == [phase |-> "Pending", containerStatuses |-> Absent]

NamedPod(name, st) == [metadata |-> [name |-> name], status |-> st]
NamelessPod == [metadata |-> Absent, status |-> ReadyStatus]

\* nodes
Node(meta, addresses, conditions) ==
    [metadata |-> meta,
     status |-> [addresses |-> addresses, conditions |-> conditions]]
Address(type, address) == [type |-> type, address |-> address]
Condition(type, status) == [type |-> type, status |-> status]

GoodAddresses == <<Address("Hostname", "k3s"), Address("InternalIP", ArgsIp)>>
ReadyConditions == <<Condition("MemoryPressure", "False"), Condition("Ready", "True")>>

Nodes ==
    { Node([name |-> "k3s"], GoodAddresses, ReadyConditions),
      Node([name |-> "k3s"], GoodAddresses, <<Condition("Ready", "False")>>),
      Node([name |-> "k3s"], GoodAddresses, <<>>),
      Node([name |-> "k3s"], <<Address("InternalIP", "10.0.2.15")>>, ReadyConditions),
      Node([name |-> "k3s"], <<Address("Hostname", "k3s")>>, ReadyConditions),
      Node([name |-> "k3s"], <<Address("InternalIP", "10.0.2.15")>>,
           <<Condition("Ready", "Unknown")>>),
      Node(Absent, GoodAddresses, ReadyConditions),
      Node([name |-> "k3s"], <<Address("InternalIP", ArgsIp), [type |-> "ExternalIP"]>>,
           ReadyConditions),
      [metadata |-> [name |-> "k3s"], status |-> [conditions |-> ReadyConditions]] }

NodeProcs ==
    Failures \cup {ExitBadJson, ExitArray, ExitJson([apiVersion |-> "v1"]),
                   ExitJson([items |-> <<>>])}
        \cup {ExitJson([items |-> <<n>>]) : n \in Nodes}
        \cup {ExitJson([items |-> <<n, Node([name |-> "n2"], <<>>, <<>>)>>]) :
                 n \in {Node([name |-> "k3s"], GoodAddresses, ReadyConditions)}}

\* the pods of kube-system: for every core component no pod, a ready pod or a
\* pending pod, and in some lists one more pod
CorePod(k, choice) ==
    IF choice = "none" THEN <<>>
    ELSE <<NamedPod(<<CoreKeys[k], "-5d78c9869d-x2x7q">>,
                    IF choice = "ready" THEN ReadyStatus ELSE PendingStatus)>>

CorePodLists ==
    LET choices == [1..Len(CoreKeys) -> {"none", "ready", "pending"}]
        list(c) == CorePod(1, c[1]) \o CorePod(2, c[2]) \o CorePod(3, c[3])
                       \o CorePod(4, c[4])
        allReady == list([k \in 1..Len(CoreKeys) |-> "ready"])
    IN {list(c) : c \in choices}
           \cup { Append(allReady, NamelessPod),
                  <<NamelessPod>> \o allReady,
                  <<NamedPod(<<"svclb-", "traefik">>, ReadyStatus)>> \o allReady,
                  <<NamedPod(<<"coredns", "-a">>, NotReadyStatus)>> \o allReady }

CoreProcs ==
    Failures \cup {ExitBadJson, ExitArray, ExitJson([apiVersion |-> "v1"])}
        \cup {ExitJson([items |-> l]) : l \in CorePodLists}

ExistsProcs == Failures \cup {ExitPlain}

\* deployments
Deployment(avail) == [status |-> [availableReplicas |-> avail]]

DeployProcs ==
    Failures \cup {ExitBadJson, ExitArray, ExitJson([status |-> Absent])}
        \cup {ExitJson(Deployment(a)) :
                 a \in {Absent, [int |-> 0], [int |-> 1], [str |-> "abc"], [str |-> "2"]}}

\* probes
Response(status, reason, data) == [status |-> status, reason |-> reason, data |-> data]

Conns ==
    { Response(200, "OK", <<>>), Response(404, "Not Found", <<>>),
      Response(503, "Service Unavailable", <<>>),
      [exc |-> "[Errno 111] Connection refused"], Hang }

WhoamiConns ==
    {Response(st, "", d) :
        st \in {200, 302, 404, 503},
        d \in {<<>>, <<"Hostname:", " whoami-1">>, <<InvalidByte, "Request served by">>}}
        \cup {[exc |-> "[Errno 111] Connection refused"], Hang}

\* the pods of the logging namespace
LokiPods ==
    { NamedPod(<<"loki", "-0">>, ReadyStatus),
      NamedPod(<<"loki", "-0">>, PendingStatus),
      NamedPod(<<"loki", "-", "promtail", "-x">>, ReadyStatus),
      NamedPod(<<"promtail", "-x">>, ReadyStatus),
      NamelessPod }

LokiProcs ==
    Failures \cup {ExitBadJson, ExitArray, ExitJson([apiVersion |-> "v1"])}
        \cup {ExitJson([items |-> l]) : l \in SeqsUpTo(LokiPods, MaxPods)}

DnsAnswers == {[ip |-> ArgsIp], [ip |-> "10.0.2.15"], [gaierror |-> TRUE], Hang}

\* arguments of the pure functions
Readies ==
    {Absent, Null, [bool |-> TRUE], [bool |-> FALSE], [str |-> "false"],
     [str |-> ""], [int |-> 0]}

Entries == {[scalar |-> "ready"]} \cup {Container(r) : r \in Readies}

ContainerStatuses ==
    {Absent, Null, [int |-> 5], [int |-> 0], [str |-> "abc"], [str |-> ""]}
        \cup {[list |-> l] : l \in SeqsUpTo(Entries, MaxContainers)}

PodValues ==
    {[scalar |-> "pod"], [metadata |-> Absent], [status |-> Absent],
     [status |-> [scalar |-> "Running"]]}
        \cup {[status |-> [phase |-> p, containerStatuses |-> c]] :
                 p \in {"Running", "Pending", "<absent>"}, c \in ContainerStatuses}

ProbeConns ==
    {Response(st, r, d) :
        st \in {100, 101, 200, 204, 301, 302, 404, 499, 500, 503, 599},
        r \in {"", "OK"},
        d \in {<<>>, <<"Hostname:">>, <<InvalidByte, "Request served by">>}}
        \cup {[exc |-> m] : m \in {"[Errno 111] Connection refused", "timed out",
                                   "[SSL] wrong version number", ""}}
        \cup {Hang}

(***************************************************************************)
(* The end-to-end scenarios.  scenario is "stated" while every answer seen *)
(* so far satisfies the scenario of the all-healthy run, read generously:  *)
(* the kubeconfig file is read, /readyz exits 0 and answers ok, every      *)
(* other kubectl invocation exits 0, with a well-formed JSON object where  *)
(* JSON is asked for, whose first node and pods carry the fields the       *)
(* sections navigate, the first node has Ready=True and InternalIP equal   *)
(* to the configured IP, the four core pods are ready and every probe      *)
(* returns status 200.  It is "full" while in addition the argocd-server   *)
(* and Grafana deployments report availableReplicas > 0 and the operator's *)
(* availableReplicas, if any, is a number.  Otherwise it is "none".        *)
(***************************************************************************)
Worse(a, b) ==
    IF a = "none" \/ b = "none" THEN "none"
    ELSE IF a = "stated" \/ b = "stated" THEN "stated"
    ELSE "full"

Grade(stated, full) ==
    IF ~stated THEN "none" ELSE IF full THEN "full" ELSE "stated"

ExitsZero(proc) == "rc" \in DOMAIN proc /\ proc.rc = 0
ExitsJson(proc) == ExitsZero(proc) /\ "doc" \in DOMAIN proc.out
ExitsObject(proc) == ExitsJson(proc) /\ "array" \notin DOMAIN proc.out.doc
ItemsOf(proc) ==
    IF ExitsObject(proc) /\ "items" \in DOMAIN proc.out.doc
    THEN proc.out.doc.items ELSE <<>>
AllNamed(pods) == \A k \in 1..Len(pods) : "name" \in DOMAIN pods[k].metadata

KubeconfigGrade(file) == Grade("lines" \in DOMAIN file, TRUE)

ReadyzGrade(proc) ==
    Grade(ExitsZero(proc) /\ \E k \in 1..Len(proc.out.text) :
                                 proc.out.text[k] \in {"ok", "OK"},
          TRUE)

NodeGrade(proc) ==
    LET items == ItemsOf(proc)
        st == items[1].status
    IN Grade(/\ items # <<>>
             /\ "name" \in DOMAIN items[1].metadata
             /\ \E k \in 1..Len(st.conditions) :
                    st.conditions[k] = Condition("Ready", "True")
             /\ "addresses" \in DOMAIN st
             /\ \A k \in 1..Len(st.addresses) : "address" \in DOMAIN st.addresses[k]
             /\ \E k \in 1..Len(st.addresses) :
                    st.addresses[k] = Address("InternalIP", ArgsIp),
             TRUE)

CoreGrade(proc) ==
    LET items == ItemsOf(proc)
    IN Grade(/\ ExitsObject(proc)
             /\ AllNamed(items)
             /\ \A c \in 1..Len(CoreKeys) :
                    \E k \in 1..Len(items) :
                        /\ items[k].metadata.name[1] = CoreKeys[c]
                        /\ items[k].status = ReadyStatus,
             TRUE)

ExistsGrade(proc) == Grade(ExitsZero(proc), TRUE)

\* the availableReplicas of a deployment document, Absent when it has none
ReplicasOf(proc) ==
    IF "absent" \in DOMAIN proc.out.doc.status THEN Absent
    ELSE proc.out.doc.status.availableReplicas

DeployGrade(proc) ==
    Grade(ExitsObject(proc),
          "int" \in DOMAIN ReplicasOf(proc) /\ ReplicasOf(proc).int > 0)

OperatorGrade(proc) ==
    Grade(ExitsObject(proc), "str" \notin DOMAIN ReplicasOf(proc))

PodsGrade(proc) == Grade(ExitsObject(proc), TRUE)

ProbeGrade(conn) == Grade("status" \in DOMAIN conn /\ conn.status = 200, TRUE)

(***************************************************************************)
(* main (lines 86-383), one action per sub-check.                          *)
(***************************************************************************)
\* the external calls, with the timeout each is given
ShCall == [fn |-> "sh", timeout |-> ShTimeout]
KubectlJsonCall == [fn |-> "sh", timeout |-> KubectlTimeout]
ProbeCall == [fn |-> "http_probe", timeout |-> ProbeTimeout]
DnsCall == [fn |-> "gethostbyname"]

\* print the lines and add to the counters; fresh: the step begins a section
Step(lines, fresh, next, answer, grade) ==
    /\ out' = (IF fresh THEN <<>> ELSE out) \o lines
    /\ passed' = passed + Tallied(lines, "ok")
    /\ warned' = warned + Tallied(lines, "warn")
    /\ failed' = failed + Tallied(lines, "fail")
    /\ okLines' = okLines + Count(lines, "ok")
    /\ warnLines' = warnLines + Count(lines, "warn")
    /\ failLines' = failLines + Count(lines, "fail")
    /\ pc' = next
    /\ inp' = answer
    /\ scenario' = Worse(scenario, grade)

Init ==
    /\ pc = "kubeconfig"
    /\ https \in BOOLEAN
    /\ i = 1
    /\ passed = 0 /\ warned = 0 /\ failed = 0
    /\ okLines = 0 /\ warnLines = 0 /\ failLines = 0
    /\ out = <<>>
    /\ hint = "none"
    /\ summary = "none"
    /\ calls = {}
    /\ inp = Absent
    /\ scenario = "full"
    /\ arg = Absent
    /\ ret = Absent

Kubeconfig ==
    /\ pc = "kubeconfig"
    /\ \E file \in Files :
          LET r == KubeconfigCheck(file) IN
          /\ Step(r.lines, TRUE, IF r.raised THEN "crashed" ELSE "readyz",
                  file, KubeconfigGrade(file))
          /\ hint' = r.hint
    /\ UNCHANGED <<https, i, summary, calls, arg, ret>>

Readyz ==
    /\ pc = "readyz"
    /\ \E proc \in ReadyzProcs :
          Step(ReadyzCheck(proc), FALSE, "nodes", proc, ReadyzGrade(proc))
    /\ calls' = calls \cup {ShCall}
    /\ UNCHANGED <<https, i, hint, summary, arg, ret>>

NodeHealth ==
    /\ pc = "nodes"
    /\ \E proc \in NodeProcs :
          Step(NodeCheck(proc), TRUE, "core", proc, NodeGrade(proc))
    /\ calls' = calls \cup {KubectlJsonCall}
    /\ UNCHANGED <<https, i, hint, summary, arg, ret>>

CorePods ==
    /\ pc = "core"
    /\ \E proc \in CoreProcs :
          Step(CoreCheck(proc), TRUE, "namespaces", proc, CoreGrade(proc))
    /\ calls' = calls \cup {KubectlJsonCall}
    /\ UNCHANGED <<https, i, hint, summary, arg, ret>>

NamespacesPresent ==
    /\ pc = "namespaces"
    /\ \E proc \in ExistsProcs :
          Step(NamespaceCheck(proc, Namespaces[i]), i = 1,
               IF i = Len(Namespaces) THEN "argocd_deploy" ELSE "namespaces",
               proc, ExistsGrade(proc))
    /\ i' = IF i = Len(Namespaces) THEN 1 ELSE i + 1
    /\ calls' = calls \cup {ShCall}
    /\ UNCHANGED <<https, hint, summary, arg, ret>>

ArgocdDeploy ==
    /\ pc = "argocd_deploy"
    /\ \E proc \in DeployProcs :
          LET r == ArgocdDeployCheck(proc) IN
          Step(r.lines, TRUE, IF r.raised THEN "grafana_deploy" ELSE "argocd_http",
               proc, DeployGrade(proc))
    /\ calls' = calls \cup {ShCall}
    /\ UNCHANGED <<https, i, hint, summary, arg, ret>>

ArgocdHttp ==
    /\ pc = "argocd_http"
    /\ \E conn \in Conns :
          Step(ProbeCheck(conn, "argocd_http"), FALSE, "argocd_https",
               conn, ProbeGrade(conn))
    /\ calls' = calls \cup {ProbeCall}
    /\ UNCHANGED <<https, i, hint, summary, arg, ret>>

ArgocdHttps ==
    /\ pc = "argocd_https"
    /\ IF https
       THEN /\ \E conn \in Conns :
                  Step(ProbeCheck(conn, "argocd_https"), FALSE, "grafana_deploy",
                       conn, ProbeGrade(conn))
            /\ calls' = calls \cup {ProbeCall}
       ELSE /\ Step(<<>>, FALSE, "grafana_deploy", Absent, "full")
            /\ UNCHANGED calls
    /\ UNCHANGED <<https, i, hint, summary, arg, ret>>

GrafanaDeploy ==
    /\ pc = "grafana_deploy"
    /\ \E proc \in DeployProcs :
          LET r == GrafanaDeployCheck(proc) IN
          Step(r.lines, TRUE, IF r.raised THEN "loki" ELSE "grafana_operator",
               proc, DeployGrade(proc))
    /\ calls' = calls \cup {ShCall}
    /\ UNCHANGED <<https, i, hint, summary, arg, ret>>

GrafanaOperator ==
    /\ pc = "grafana_operator"
    /\ \E proc \in DeployProcs :
          LET r == OperatorCheck(proc) IN
          Step(r.lines, FALSE, IF r.raised THEN "loki" ELSE "grafana_http",
               proc, OperatorGrade(proc))
    /\ calls' = calls \cup {ShCall}
    /\ UNCHANGED <<https, i, hint, summary, arg, ret>>

GrafanaHttp ==
    /\ pc = "grafana_http"
    /\ \E conn \in Conns :
          Step(ProbeCheck(conn, "grafana_http"), FALSE, "grafana_https",
               conn, ProbeGrade(conn))
    /\ calls' = calls \cup {ProbeCall}
    /\ UNCHANGED <<https, i, hint, summary, arg, ret>>

GrafanaHttps ==
    /\ pc = "grafana_https"
    /\ IF https
       THEN /\ \E conn \in Conns :
                  Step(ProbeCheck(conn, "grafana_https"), FALSE, "loki",
                       conn, ProbeGrade(conn))
            /\ calls' = calls \cup {ProbeCall}
       ELSE /\ Step(<<>>, FALSE, "loki", Absent, "full")
            /\ UNCHANGED calls
    /\ UNCHANGED <<https, i, hint, summary, arg, ret>>

LokiPromtail ==
    /\ pc = "loki"
    /\ \E proc \in LokiProcs :
          Step(LokiCheck(proc), TRUE, "whoami_svc", proc, PodsGrade(proc))
    /\ calls' = calls \cup {KubectlJsonCall}
    /\ UNCHANGED <<https, i, hint, summary, arg, ret>>

WhoamiSvc ==
    /\ pc = "whoami_svc"
    /\ \E proc \in ExistsProcs :
          LET r == WhoamiSvcCheck(proc) IN
          Step(r.lines, TRUE, IF r.raised THEN "dns" ELSE "whoami_http",
               proc, ExistsGrade(proc))
    /\ calls' = calls \cup {ShCall}
    /\ UNCHANGED <<https, i, hint, summary, arg, ret>>

WhoamiHttp ==
    /\ pc = "whoami_http"
    /\ \E conn \in WhoamiConns :
          Step(WhoamiProbeCheck(conn), FALSE, "whoami_https", conn, ProbeGrade(conn))
    /\ calls' = calls \cup {ProbeCall}
    /\ UNCHANGED <<https, i, hint, summary, arg, ret>>

WhoamiHttps ==
    /\ pc = "whoami_https"
    /\ IF https
       THEN /\ \E conn \in Conns :
                  Step(ProbeCheck(conn, "whoami_https"), FALSE, "dns",
                       conn, ProbeGrade(conn))
            /\ calls' = calls \cup {ProbeCall}
       ELSE /\ Step(<<>>, FALSE, "dns", Absent, "full")
            /\ UNCHANGED calls
    /\ UNCHANGED <<https, i, hint, summary, arg, ret>>

\* a lookup that never returns leaves main blocked in gethostbyname
DnsHints ==
    /\ pc = "dns"
    /\ \E answer \in DnsAnswers :
          IF "hang" \in DOMAIN answer
          THEN /\ Step(<<>>, i = 1, "hung", answer, "full")
               /\ i' = i
          ELSE /\ Step(DnsCheck(answer, ArgsHosts[i]), i = 1,
                       IF i = Len(ArgsHosts) THEN "summary" ELSE "dns",
                       answer, "full")
               /\ i' = IF i = Len(ArgsHosts) THEN 1 ELSE i + 1
    /\ calls' = calls \cup {DnsCall}
    /\ UNCHANGED <<https, hint, summary, arg, ret>>

\* on failures the summary also prints the "Common fixes" lines
Summary ==
    /\ pc = "summary"
    /\ pc' = "done"
    /\ summary' = SummaryMessage(failed)
    /\ UNCHANGED <<https, i, passed, warned, failed, okLines, warnLines, failLines,
                   out, hint, calls, inp, scenario, arg, ret>>

Next ==
    \/ Kubeconfig \/ Readyz \/ NodeHealth \/ CorePods \/ NamespacesPresent
    \/ ArgocdDeploy \/ ArgocdHttp \/ ArgocdHttps
    \/ GrafanaDeploy \/ GrafanaOperator \/ GrafanaHttp \/ GrafanaHttps
    \/ LokiPromtail \/ WhoamiSvc \/ WhoamiHttp \/ WhoamiHttps
    \/ DnsHints \/ Summary

Spec == Init /\ [][Next]_vars

(***************************************************************************)
(* The pure functions, each applied to every argument of a bounded set.    *)
(***************************************************************************)
InitPure(start, arguments) ==
    /\ pc = start
    /\ arg \in arguments
    /\ ret = Absent
    /\ https = FALSE /\ i = 1
    /\ passed = 0 /\ warned = 0 /\ failed = 0
    /\ okLines = 0 /\ warnLines = 0 /\ failLines = 0
    /\ out = <<>> /\ hint = "none" /\ summary = "none"
    /\ calls = {} /\ inp = Absent /\ scenario = "full"

UnchangedMain ==
    UNCHANGED <<https, i, passed, warned, failed, okLines, warnLines, failLines,
                out, hint, summary, calls, inp, scenario, arg>>

InitPodReady == InitPure("pod_ready", PodValues)

CallPodReady ==
    /\ pc = "pod_ready"
    /\ pc' = "pod_ready_ret"
    /\ ret' = pod_ready(arg)
    /\ UnchangedMain

SpecPodReady == InitPodReady /\ [][CallPodReady]_vars

InitHttpProbe == InitPure("http_probe", ProbeConns)

CallHttpProbe ==
    /\ pc = "http_probe"
    /\ pc' = "http_probe_ret"
    /\ ret' = http_probe(arg)
    /\ UnchangedMain

SpecHttpProbe == InitHttpProbe /\ [][CallHttpProbe]_vars

(***************************************************************************)
(* Properties.                                                             *)
(***************************************************************************)
HasLine(lvl, chk) == \E k \in 1..Len(out) : out[k].lvl = lvl /\ out[k].chk = chk
Evaluated(chk) == \E k \in 1..Len(out) : out[k].chk = chk

\* C1: whatever the external dependencies answer, no error raised inside a
\* section escapes main() as an unhandled exception.
C1_NoErrorEscapesMain == pc # "crashed"

\* C2: every external call made during a run (kubectl child process, HTTP(S)
\* probe, DNS lookup) is given a timeout, so main() is never left blocked in a
\* call that hangs.
C2_EveryCallBounded ==
    /\ \A c \in calls : "timeout" \in DOMAIN c
    /\ pc # "hung"

\* C3: pod_ready returns true if and only if the phase is "Running", the
\* containerStatuses list has at least one entry, and every entry reports
\* ready = true; every missing or malformed field yields false.
StatedReady(pod) ==
    /\ "status" \in DOMAIN pod
    /\ "phase" \in DOMAIN pod.status
    /\ pod.status.phase = "Running"
    /\ "list" \in DOMAIN pod.status.containerStatuses
    /\ LET cs == pod.status.containerStatuses.list IN
       /\ Len(cs) >= 1
       /\ \A k \in 1..Len(cs) :
              "ready" \in DOMAIN cs[k] /\ cs[k].ready = [bool |-> TRUE]

C3_PodReadyIff == pc = "pod_ready_ret" => ret = StatedReady(arg)

\* C4: http_probe classifies a response as reachable if and only if its status
\* is in [100, 500), and returns (False, 0, message, "") for an exception in
\* connect, request or read.
C4_ProbeClassification ==
    pc = "http_probe_ret" =>
        /\ "status" \in DOMAIN arg =>
               /\ ret[1] = (arg.status >= 100 /\ arg.status < 500)
               /\ ret[2] = arg.status
        /\ "exc" \in DOMAIN arg => ret = <<FALSE, 0, arg.exc, <<>> >>
        /\ "hang" \in DOMAIN arg => ret = <<FALSE, 0, "timed out", <<>> >>

C4_Witness ==
    /\ pc = "http_probe_ret"
    /\ "status" \in DOMAIN arg
    /\ arg.status = 404
    /\ ret[1] = TRUE

\* C5: in the whoami section the HTTP probe sub-check is a fail whenever the
\* probe failed (5xx or connection error), and a pass only when the probe is
\* reachable and the body or the status matches the expected markers.
ProbeFailed(conn) == "status" \notin DOMAIN conn \/ conn.status >= 500

MarkersMatch(conn) ==
    /\ "status" \in DOMAIN conn
    /\ \/ \E k \in 1..Len(conn.data) :
              conn.data[k] \in {"Hostname:", "Request served by"}
       \/ conn.status \in {200, 301, 302}

C5_WhoamiProbeFailureFails ==
    pc = "whoami_https" =>
        /\ ProbeFailed(inp) => HasLine("fail", "whoami_http")
        /\ HasLine("ok", "whoami_http") => ~ProbeFailed(inp) /\ MarkersMatch(inp)

\* C6: every printed ok, warn or fail line increments the counter of its level,
\* so at the summary the counters equal the numbers of lines printed.
C6_CountersEqualLines ==
    pc \in {"summary", "done"} =>
        passed = okLines /\ warned = warnLines /\ failed = failLines

\* C7: a failing command of one sub-check leaves the later sub-checks of the
\* same section evaluated: the Argo CD section always evaluates its HTTP probe,
\* the Grafana section its operator query and its HTTP probe.
C7_LaterSubchecksEvaluated ==
    /\ pc = "grafana_deploy" => Evaluated("argocd_http")
    /\ pc = "loki" => Evaluated("operator") /\ Evaluated("grafana_http")

ServerLineIsLoopback(lines) ==
    \E k \in 1..Len(lines) :
        /\ \E t \in 1..Len(lines[k]) : lines[k][t] = "server: "
        /\ \A j \in 1..(k - 1) : \A t \in 1..Len(lines[j]) : lines[j][t] # "server: "
        /\ \E t \in 1..Len(lines[k]) : lines[k][t] = "127.0.0.1:6443"

C9_KubeconfigCheck ==
    /\ pc = "crashed" => "missing" \notin DOMAIN inp
    /\ pc = "readyz" =>
        /\ "lines" \in DOMAIN inp /\ ServerLineIsLoopback(inp.lines) =>
               /\ HasLine("warn", "kubeconfig_server")
               /\ warnLines = 1 /\ warned = 1
               /\ failLines = 0 /\ failed = 0
        /\ "missing" \in DOMAIN inp =>
               /\ HasLine("fail", "kubeconfig")
               /\ failed = 1 /\ warned = 0
               /\ hint = ArgsIp

C9_Witness ==
    /\ pc = "readyz"
    /\ "lines" \in DOMAIN inp
    /\ Len(inp.lines) = 2
    /\ ServerLineIsLoopback(inp.lines)
    /\ warned = 1

\* C10: the Namespaces, Loki/Promtail and DNS hints sections never change the
\* failed counter, whatever they are answered.
C10_WarnOnlySections ==
    [][(pc \in {"namespaces", "loki", "dns"}) => (failed' = failed)]_vars

C10_Witness ==
    /\ pc = "whoami_svc"
    /\ out = <<Line("warn", "loki_error", TRUE)>>
    /\ "rc" \in DOMAIN inp
    /\ inp.rc = 0

====
